---- MODULE Spec2Model ----
(***************************************************************************)
(* A model of manga_downloader: the terminal session (tui.py), the        *)
(* download engine (downloader.py), the CLI range selection (cli.py) and   *)
(* the file-name helpers (utils.py).                                       *)
(*                                                                         *)
(* Conventions.                                                            *)
(*  - A Python Optional is a sequence of length 0 (None) or 1 (a value).   *)
(*  - Text that the program converts (titles, URLs, file names) is a       *)
(*    sequence of one-character strings, so that the conversions are       *)
(*    computed. Text that is only compared (source names, slugs, ids,      *)
(*    queries) is a TLA+ string.                                           *)
(*  - Handlers of the UI thread run one at a time (one event loop).        *)
(*    A worker thread (@work(thread=True)) is cut into steps at its        *)
(*    blocking network calls; a step is the call together with the code    *)
(*    that runs up to the next blocking call.                              *)
(***************************************************************************)
EXTENDS Integers, Sequences, FiniteSets, Bags, TLC

\* ------------------------------------------------------------ bounds
\* Longest chapter list an upstream source returns.
MaxChapters == 2
\* Longest page list of a chapter.
MaxPages == 2
\* Worker threads of one kind that may be in flight at once.
MaxWorkers == 2
\* User actions (queries submitted, results selected, range keys and
\* clicks, source toggles, downloads started) in one run of the session.
MaxActions == 4

\* ------------------------------------------------------------ Optional
None == << >>
Some(x) == << x >>
IsNone(o) == o = << >>
IsSome(o) == o # << >>
Get(o) == o[1]
\* Python truthiness of an Optional[int]: None and 0 are falsy.
TruthyInt(o) == IsSome(o) /\ Get(o) # 0
\* Python `o or d` for an Optional[int].
OrElse(o, d) == IF TruthyInt(o) THEN Get(o) ELSE d
Min(a, b) == IF a < b THEN a ELSE b
Max(a, b) == IF a > b THEN a ELSE b

\* ------------------------------------------------------------ utils.py
InvalidWinChars == {"<", ">", ":", "\"", "/", "\\", "|", "?", "*"}
Whitespace == {" ", "\t", "\n"}
Untitled == <<"u", "n", "t", "i", "t", "l", "e", "d">>

RECURSIVE LStrip(_, _)
LStrip(s, chars) ==
  IF s # << >> /\ Head(s) \in chars THEN LStrip(Tail(s), chars) ELSE s

RECURSIVE RStrip(_, _)
RStrip(s, chars) ==
  IF s # << >> /\ s[Len(s)] \in chars
  THEN RStrip(SubSeq(s, 1, Len(s) - 1), chars)
  ELSE s

Strip(s, chars) == RStrip(LStrip(s, chars), chars)

\* re.sub of every invalid character by the replacement "_".
SubInvalid(name) ==
  [i \in 1..Len(name) |-> IF name[i] \in InvalidWinChars THEN "_" ELSE name[i]]

sanitize_filename(name) ==
  LET cleaned == Strip(Strip(SubInvalid(name), Whitespace), {"."})
  IN IF cleaned = << >> THEN Untitled ELSE cleaned

\* Index of the first / last occurrence of c in s, 0 when there is none.
RECURSIVE FindFrom(_, _, _)
FindFrom(s, c, i) ==
  IF i > Len(s) THEN 0 ELSE IF s[i] = c THEN i ELSE FindFrom(s, c, i + 1)

RECURSIVE RFindFrom(_, _, _)
RFindFrom(s, c, i) ==
  IF i < 1 THEN 0 ELSE IF s[i] = c THEN i ELSE RFindFrom(s, c, i - 1)

\* os.path.splitext(p)[1]: the text from the last dot of the last path
\* component, unless that dot only leads the component.
SplitExt(p) ==
  LET sep == RFindFrom(p, "/", Len(p))
      dot == RFindFrom(p, ".", Len(p))
      nonDotBefore == \E k \in (sep + 1)..(dot - 1) : p[k] # "."
  IN IF dot > sep /\ nonDotBefore THEN SubSeq(p, dot, Len(p)) ELSE << >>

guess_ext_from_url(url) ==
  LET q == FindFrom(url, "?", 1)
      base == IF q = 0 THEN url ELSE SubSeq(url, 1, q - 1)
      ext == SplitExt(base)
  IN IF ext = << >> THEN <<".", "j", "p", "g">> ELSE ext

\* f"{idx:03d}": the decimal digits of idx, zero-padded to three.
RECURSIVE Digits(_)
Digits(n) ==
  LET d == CASE n % 10 = 0 -> "0" [] n % 10 = 1 -> "1" [] n % 10 = 2 -> "2"
             [] n % 10 = 3 -> "3" [] n % 10 = 4 -> "4" [] n % 10 = 5 -> "5"
             [] n % 10 = 6 -> "6" [] n % 10 = 7 -> "7" [] n % 10 = 8 -> "8"
             [] OTHER -> "9"
  IN IF n < 10 THEN <<d>> ELSE Digits(n \div 10) \o <<d>>

Fmt03d(idx) ==
  LET ds == Digits(idx)
  IN IF Len(ds) >= 3 THEN ds
     ELSE IF Len(ds) = 2 THEN <<"0">> \o ds ELSE <<"0", "0">> \o ds

PageFileName(idx, url) == Fmt03d(idx) \o guess_ext_from_url(url)

\* ------------------------------------------------------------ sources
\* registry.list_sources
list_sources == <<"kisslove", "mangakatana">>

\* registry.get_client: the client class chosen for a source name.
get_client(source) ==
  IF source = "mangakatana" THEN "MangaKatanaClient" ELSE "KissLoveClient"

\* ------------------------------------------------------------ upstream
\* What the two sites serve. The program sees it only through the client
\* methods search, chapters and chapter_pages.
MangaA == [slug |-> "a", title |-> <<"A", "?">>]
MangaB == [slug |-> "b", title |-> <<"B">>]
MangaC == [slug |-> "/c", title |-> <<"A", "_">>]

\* client.search(query) when the request succeeds.
SearchResults(client, query) ==
  IF client = "KissLoveClient" THEN <<MangaA, MangaB>> ELSE <<MangaC>>

ChapterTitle(n) ==
  CASE n = 1 -> <<"1">>
    [] n = 2 -> <<"2", ".">>
    [] OTHER -> <<"2">>

\* A KissLove chapter has an id and a slug of its own (_parse_chapter).
KissChapter(manga, n) ==
  [id |-> <<"id", manga, n>>, slug |-> <<"slug", manga, n>>,
   title |-> ChapterTitle(n)]

\* A MangaKatana chapter's id and slug are both the normalized href.
KatanaChapter(manga, n) ==
  [id |-> <<"href", manga, n>>, slug |-> <<"href", manga, n>>,
   title |-> ChapterTitle(n)]

\* client.chapters(slug): ok is FALSE when the request fails (a slug of the
\* other site: HTTP 404 and raise_for_status). KissLove sorts descending.
ChaptersOf(client, slug) ==
  CASE client = "KissLoveClient" /\ slug = "a" ->
         [ok |-> TRUE,
          list |-> [i \in 1..MaxChapters |->
                      KissChapter("a", MaxChapters + 1 - i)]]
    [] client = "KissLoveClient" /\ slug = "b" ->
         [ok |-> TRUE, list |-> <<KissChapter("b", 1)>>]
    [] client = "MangaKatanaClient" /\ slug = "/c" ->
         [ok |-> TRUE, list |-> <<KatanaChapter("/c", 1)>>]
    [] OTHER -> [ok |-> FALSE, list |-> << >>]

Url(i) ==
  CASE i % 3 = 1 -> <<"/", "1", ".", "p", "n", "g">>
    [] i % 3 = 2 -> <<"/", "p", ".", "d", "/", "2", "?", "a", ".", "b">>
    [] OTHER -> <<"/", ".", "h">>

\* client.chapter_pages(chapter_id): chapter 2 of manga a has no page.
ChapterPagesOf(client, id) ==
  CASE client = "KissLoveClient" /\ id = <<"id", "a", 1>> ->
         [ok |-> TRUE, pages |-> [i \in 1..MaxPages |-> Url(i)]]
    [] client = "KissLoveClient" /\ id[1] = "id" /\ id[2] = "a" ->
         [ok |-> TRUE, pages |-> << >>]
    [] client = "KissLoveClient" /\ id = <<"id", "b", 1>> ->
         [ok |-> TRUE, pages |-> <<Url(1)>>]
    [] client = "MangaKatanaClient" /\ id = <<"href", "/c", 1>> ->
         [ok |-> TRUE, pages |-> <<Url(2)>>]
    [] OTHER -> [ok |-> FALSE, pages |-> << >>]

\* ------------------------------------------------------------ storage
\* downloads/ as a function: manga directory name -> entry name -> entry.
\* An entry is a chapter directory [kind |-> "dir", files |-> name -> state]
\* (state "full" or "partial") or a .cbz archive [kind |-> "file", ...].
EmptyDisk == << >>
Put(f, k, v) == [x \in DOMAIN f \cup {k} |-> IF x = k THEN v ELSE f[x]]
CbzSuffix == <<".", "c", "b", "z">>
EmptyDir == [kind |-> "dir", files |-> << >>]

\* Path.exists() of downloads/<manga_dir>
MangaDirExists(d, manga_dir) == manga_dir \in DOMAIN d
\* Path.exists() of downloads/<manga_dir>/<name>
EntryExists(d, manga_dir, name) ==
  manga_dir \in DOMAIN d /\ name \in DOMAIN d[manga_dir]

\* ------------------------------------------------------------ downloader.py
\* The page loop of download_chapter. failAt is the ordinal of the request
\* of this call that fails (0: none does), failKind how it fails: "request"
\* (session.get or raise_for_status raises, nothing is written) or "stream"
\* (iter_content raises after dest.open("wb") created the file).
\* The page loop without the test of dest.exists(): every page is requested.
RECURSIVE FetchPages_refetch(_, _, _, _, _, _)
FetchPages_refetch(files, pages, idx, fetched, failAt, failKind) ==
  IF idx > Len(pages)
  THEN [files |-> files, fetched |-> fetched, result |-> "ok"]
  ELSE
    LET dest == PageFileName(idx, pages[idx])
        n == Len(fetched) + 1
    IN IF n = failAt /\ failKind = "request"
       THEN [files |-> files, fetched |-> Append(fetched, idx),
             result |-> "HTTPError"]
       ELSE IF n = failAt
       THEN [files |-> Put(files, dest, "partial"),
             fetched |-> Append(fetched, idx), result |-> "StreamError"]
       ELSE FetchPages_refetch(Put(files, dest, "full"), pages, idx + 1,
                               Append(fetched, idx), failAt, failKind)

RECURSIVE FetchPages(_, _, _, _, _, _)
FetchPages(files, pages, idx, fetched, failAt, failKind) ==
  IF idx > Len(pages)
  THEN [files |-> files, fetched |-> fetched, result |-> "ok"]
  ELSE
    LET dest == PageFileName(idx, pages[idx])
        n == Len(fetched) + 1
    IN IF dest \in DOMAIN files
       THEN FetchPages(files, pages, idx + 1, fetched, failAt, failKind)
       ELSE IF n = failAt /\ failKind = "request"
       THEN [files |-> files, fetched |-> Append(fetched, idx),
             result |-> "HTTPError"]
       ELSE IF n = failAt
       THEN [files |-> Put(files, dest, "partial"),
             fetched |-> Append(fetched, idx), result |-> "StreamError"]
       ELSE FetchPages(Put(files, dest, "full"), pages, idx + 1,
                       Append(fetched, idx), failAt, failKind)

\* _make_cbz: the archive of the directory's files.
make_cbz(files) == [kind |-> "file", names |-> DOMAIN files]

\* download_chapter(client, manga_title, chapter, output_dir, cbz, pages).
\* pagesArg is the Optional pages argument, upstream what
\* client.chapter_pages(chapter.id) does when it is called. The result holds
\* the storage afterwards, the page indexes requested, and "ok" or the
\* exception raised.
download_chapter(d, manga_title, chapter, cbz, pagesArg, upstream, failAt, failKind) ==
  LET manga_name == sanitize_filename(manga_title)
      chapter_name == sanitize_filename(chapter.title)
      d1 == IF manga_name \in DOMAIN d THEN d ELSE Put(d, manga_name, << >>)
      isFile == chapter_name \in DOMAIN d1[manga_name]
                  /\ d1[manga_name][chapter_name].kind = "file"
      d2 == IF chapter_name \in DOMAIN d1[manga_name] THEN d1
            ELSE Put(d1, manga_name, Put(d1[manga_name], chapter_name, EmptyDir))
      usesArg == IsSome(pagesArg) /\ Get(pagesArg) # << >>
      pages == IF usesArg THEN Get(pagesArg) ELSE upstream.pages
  IN IF isFile
     THEN [disk |-> d1, fetched |-> << >>, pages |-> << >>,
           result |-> "FileExistsError"]
     ELSE IF ~usesArg /\ ~upstream.ok
     THEN [disk |-> d2, fetched |-> << >>, pages |-> << >>,
           result |-> "HTTPError"]
     ELSE IF pages = << >>
     THEN [disk |-> d2, fetched |-> << >>, pages |-> << >>,
           result |-> "DownloadError"]
     ELSE
       LET r == FetchPages(d2[manga_name][chapter_name].files, pages, 1,
                           << >>, failAt, failKind)
           d3 == Put(d2, manga_name,
                     Put(d2[manga_name], chapter_name,
                         [kind |-> "dir", files |-> r.files]))
           cbz_name == chapter_name \o CbzSuffix
           cbzIsDir == cbz_name \in DOMAIN d3[manga_name]
                         /\ d3[manga_name][cbz_name].kind = "dir"
       IN IF r.result # "ok" \/ ~cbz
          THEN [disk |-> d3, fetched |-> r.fetched, pages |-> pages,
                result |-> r.result]
          ELSE IF cbzIsDir
          THEN [disk |-> d3, fetched |-> r.fetched, pages |-> pages,
                result |-> "IsADirectoryError"]
          ELSE [disk |-> Put(d3, manga_name,
                             Put(d3[manga_name], cbz_name, make_cbz(r.files))),
                fetched |-> r.fetched, pages |-> pages, result |-> "ok"]

\* ------------------------------------------------------------ cli.py
\* Python's seq[a:b]: a negative index counts from the end, and both are
\* clipped to the sequence.
SliceIndex(i, n) == IF i < 0 THEN Max(i + n, 0) ELSE Min(i, n)
PySlice(seq, a, b) ==
  SubSeq(seq, SliceIndex(a, Len(seq)) + 1, SliceIndex(b, Len(seq)))

\* _select_range(chapters, start, end): the list it returns.
select_range(chapters, start, end) ==
  IF chapters = << >> THEN << >>
  ELSE
    LET s0 == OrElse(start, 1)
        e0 == OrElse(end, Len(chapters))
        s1 == Max(1, Min(s0, Len(chapters)))
        e1 == Max(1, Min(e0, Len(chapters)))
        s == IF s1 > e1 THEN e1 ELSE s1
        e == IF s1 > e1 THEN s1 ELSE e1
    IN PySlice(chapters, s - 1, e)

\* ------------------------------------------------------------ state
VARIABLES
  app,           \* the fields of the MangaFetcherApp object
  mounted,       \* on_mount has run
  session_file,  \* ~/manga_downloader_state.json: None or the payload
  disk,          \* the downloads/ directory
  search,        \* search_manga worker threads: a bag of local states
  load,          \* load_chapters worker threads: a bag of local states
  download,      \* download_range worker threads: a bag of local states
  lastOp,        \* history: the step taken last and its outcome
  user_selected, \* history: the user has selected a result since mount
  used,          \* history: the number of user actions taken so far
  rng,           \* one range resolution: its inputs and what it selected
  call,          \* history: the last download_chapter call of the engine
  sess,          \* one load, save or startup on a session file under study
  writers        \* the _save_session calls in progress, by thread

vars == <<app, mounted, session_file, disk, search, load, download,
          lastOp, user_selected, used, rng, call, sess, writers>>

\* rng and call when no range resolution or engine call is under study.
NoRange == [pc |-> "none"]
NoCall == [pc |-> "none"]
\* sess and writers when no session file and no write is under study.
NoSession == [pc |-> "none"]
NoWriters == [pc |-> "none"]

\* The worker threads of one kind are a bag of their local states.
InFlight(b) == BagCardinality(b)
HasFree(b) == BagCardinality(b) < MaxWorkers
Started(b, t) == b (+) SetToBag({t})
Ended(b, t) == b (-) SetToBag({t})
Moved(b, t, t2) == (b (-) SetToBag({t})) (+) SetToBag({t2})

\* Text typed into the search box.
InputTexts == {<<" ">>, <<"x", " ">>}

\* Session files found at startup: none, or one written by an earlier run
\* that had manga a of kisslove selected.
EarlierPayload ==
  [last_query |-> Some(<<"x">>), selected_source |-> Some("kisslove"),
   selected_slug |-> Some(MangaA.slug), selected_title |-> Some(MangaA.title),
   range_start |-> None, range_end |-> None,
   sources |-> <<"kisslove", "mangakatana">>,
   theme |-> "dark", theme_name |-> Some("textual-dark")]
InitialSessionFiles == {None, Some(EarlierPayload)}

\* downloads/ at startup: empty, or holding an archive of chapter "1" of
\* the manga titled "A_" made by an earlier `download --cbz`.
EarlierDisk ==
  Put(EmptyDisk, <<"A", "_">>,
      Put(<< >>, <<"1">> \o CbzSuffix,
          make_cbz(Put(<< >>, PageFileName(1, Url(1)), "full"))))
InitialDisks == {EmptyDisk, EarlierDisk}

\* MangaFetcherApp.__init__
NewApp ==
  [source_name |-> "kisslove", client |-> get_client("kisslove"),
   mangas |-> << >>, chapters |-> << >>,
   selected_manga |-> None, selected_manga_source |-> None,
   range_start |-> None, range_end |-> None,
   manga_cache |-> << >>,
   last_query |-> None, last_selected_slug |-> None,
   last_selected_source |-> None, last_selected_title |-> None,
   selected_sources |-> << >>, available_sources |-> list_sources,
   downloaded_chapters |-> << >>,
   theme_mode |-> "dark", theme_name |-> None, theme |-> "textual-dark"]

Init ==
  /\ app = NewApp
  /\ mounted = FALSE
  /\ session_file \in InitialSessionFiles
  /\ disk \in InitialDisks
  /\ search = EmptyBag
  /\ load = EmptyBag
  /\ download = EmptyBag
  /\ lastOp = "init"
  /\ user_selected = FALSE
  /\ used = 0
  /\ rng = NoRange
  /\ call = NoCall
  /\ sess = NoSession
  /\ writers = NoWriters

\* ------------------------------------------------------------ session file
\* "dark" in theme
ThemeHasDark(theme) == theme \in {"textual-dark", "solarized-dark"}

\* A payload that takes the selection from the last_selected fields, which
\* hold what the previous session had selected.
SessionPayload_last_selected(a) ==
  [last_query |-> a.last_query,
   selected_source |-> a.last_selected_source,
   selected_slug |-> a.last_selected_slug,
   selected_title |-> a.last_selected_title,
   range_start |-> a.range_start, range_end |-> a.range_end,
   sources |-> a.selected_sources,
   theme |-> a.theme_mode, theme_name |-> Some(a.theme)]

\* The payload _save_session builds (tui.py 489-499), after line 488 has
\* set theme_mode.
SessionPayload(a) ==
  [last_query |-> a.last_query,
   selected_source |-> a.selected_manga_source,
   selected_slug |-> IF IsSome(a.selected_manga)
                     THEN Some(Get(a.selected_manga).slug) ELSE None,
   selected_title |-> IF IsSome(a.selected_manga)
                      THEN Some(Get(a.selected_manga).title) ELSE None,
   range_start |-> a.range_start, range_end |-> a.range_end,
   sources |-> a.selected_sources,
   theme |-> a.theme_mode, theme_name |-> Some(a.theme)]

\* _save_session: the app and the file afterwards.
save_session(a) ==
  LET a1 == [a EXCEPT !.theme_mode =
                        IF ThemeHasDark(a.theme) THEN "dark" ELSE "light"]
  IN [app |-> a1, file |-> Some(SessionPayload(a1))]

\* _update_state / _save_state: source_state is written and never read
\* (its only reader, _restore_state, has no caller), so it is not kept.
update_state(a, f) ==
  IF a.source_name = "" THEN [app |-> a, file |-> f] ELSE save_session(a)

\* _load_session on a well-formed payload.
load_session(a, f) ==
  IF IsNone(f) THEN a
  ELSE
    LET p == Get(f)
    IN [a EXCEPT !.last_query = p.last_query,
                 !.last_selected_source = p.selected_source,
                 !.last_selected_slug = p.selected_slug,
                 !.last_selected_title = p.selected_title,
                 !.theme_mode = IF p.theme \in {"dark", "light"}
                                THEN p.theme ELSE a.theme_mode,
                 !.theme_name = IF IsSome(p.theme_name)
                                THEN p.theme_name ELSE a.theme_name,
                 !.selected_sources = p.sources]

\* _apply_theme, with watch_theme run when the assignment changes App.theme.
apply_theme(a, f) ==
  LET new == IF IsSome(a.theme_name) THEN Get(a.theme_name)
             ELSE IF a.theme_mode = "dark" THEN "textual-dark"
             ELSE "textual-light"
  IN IF new = a.theme THEN [app |-> a, file |-> f]
     ELSE save_session([a EXCEPT !.theme = new, !.theme_name = Some(new)])

\* _select_default_sources
select_default_sources(a) ==
  IF a.available_sources = << >> THEN a
  ELSE [a EXCEPT !.selected_sources = <<a.available_sources[1]>>]

\* _sync_selected_sources (called by _apply_source_selection)
sync_selected_sources(a) ==
  IF a.selected_sources # << >>
  THEN [a EXCEPT !.source_name = a.selected_sources[1],
                 !.client = get_client(a.selected_sources[1])]
  ELSE a

\* _show_previous_selection
show_previous_selection(a) ==
  IF IsNone(a.last_selected_slug) \/ IsNone(a.last_selected_source)
       \/ IsNone(a.last_selected_title)
  THEN a
  ELSE
    LET manga == [slug |-> Get(a.last_selected_slug),
                  title |-> Get(a.last_selected_title)]
        source == Get(a.last_selected_source)
    IN [a EXCEPT !.mangas = << <<source, manga>> >>,
                 !.selected_manga_source = Some(source),
                 !.selected_manga = Some(manga),
                 !.source_name = source,
                 !.client = get_client(source)]

\* on_mount after its _load_session call (tui.py 100-108): the app and the
\* file afterwards.
on_mount(a1, f) ==
  LET t == apply_theme(a1, f)
      a3 == IF t.app.selected_sources = << >>
            THEN select_default_sources(t.app) ELSE t.app
      a4 == sync_selected_sources(a3)
  IN [app |-> show_previous_selection(a4), file |-> t.file]

\* on_mount
Mount ==
  /\ ~mounted
  /\ LET r == on_mount(load_session(app, session_file), session_file)
     IN /\ app' = r.app
        /\ session_file' = r.file
  /\ mounted' = TRUE
  /\ lastOp' = "mount"
  /\ UNCHANGED <<rng, call, sess, writers>>
  /\ UNCHANGED <<disk, search, load, download, user_selected, used>>

\* ------------------------------------------------------------ range session
\* The key of the active context, as every handler builds it:
\* (self.source_name, self.selected_manga.slug).
Key(a) == <<a.source_name, Get(a.selected_manga).slug>>

\* _save_manga_cache. The cursor position it also stores is not kept: the
\* cursor is an input of every handler that reads it.
save_manga_cache(a) ==
  IF IsNone(a.selected_manga) THEN a
  ELSE [a EXCEPT !.manga_cache =
          Put(a.manga_cache, Key(a),
              [range_start |-> a.range_start, range_end |-> a.range_end])]

\* The range assignment of _set_range_from_cursor (tui.py 237-242).
set_range(a, is_start, index) ==
  IF is_start THEN [a EXCEPT !.range_start = Some(index + 1)]
  ELSE [a EXCEPT !.range_end = Some(index + 1)]

\* _update_range_from_click with a third branch that keeps the end bound.
update_range_from_click_keep_end(a, index) ==
  IF IsNone(a.range_start) THEN [a EXCEPT !.range_start = Some(index + 1)]
  ELSE IF IsNone(a.range_end) THEN [a EXCEPT !.range_end = Some(index + 1)]
  ELSE [a EXCEPT !.range_start = Some(index + 1)]

\* The three-state cycle of _update_range_from_click (tui.py 248-257).
update_range_from_click(a, index) ==
  IF IsNone(a.range_start) THEN [a EXCEPT !.range_start = Some(index + 1)]
  ELSE IF IsNone(a.range_end) THEN [a EXCEPT !.range_end = Some(index + 1)]
  ELSE [a EXCEPT !.range_start = Some(index + 1), !.range_end = None]

\* The rows of the chapter list the cursor can be on.
ChapterRows == 0..(Len(app.chapters) - 1)

\* action_set_start / action_set_end with the cursor on a row of the
\* chapter list.
SetRangeFromCursor(is_start, index) ==
  /\ mounted
  /\ used < MaxActions
  /\ LET a1 == save_manga_cache(set_range(app, is_start, index))
         r == update_state(a1, session_file)
     IN app' = r.app /\ session_file' = r.file
  /\ lastOp' = IF is_start THEN "set_start" ELSE "set_end"
  /\ used' = used + 1
  /\ UNCHANGED <<rng, call, sess, writers>>
  /\ UNCHANGED <<mounted, disk, search, load, download, user_selected>>

\* action_set_start / action_set_end with the cursor on no row, as in an
\* empty chapter list (tui.py 235-236): the handler returns at once.
SetRangeNoCursor ==
  /\ mounted
  /\ app.chapters = << >>
  /\ lastOp' = "set_range_no_cursor"
  /\ UNCHANGED <<rng, call, sess, writers>>
  /\ UNCHANGED <<app, mounted, session_file, disk, search, load, download,
                 user_selected, used>>

\* on_list_view_selected for the chapter list (tui.py 149-156).
ClickChapter(index) ==
  /\ mounted
  /\ used < MaxActions
  /\ IsSome(app.selected_manga)
  /\ LET a1 == save_manga_cache(update_range_from_click(app, index))
         r == update_state(a1, session_file)
     IN app' = r.app /\ session_file' = r.file
  /\ lastOp' = IF IsNone(app.range_start) THEN "click_start"
               ELSE IF IsNone(app.range_end) THEN "click_end"
               ELSE "click_reset"
  /\ used' = used + 1
  /\ UNCHANGED <<rng, call, sess, writers>>
  /\ UNCHANGED <<mounted, disk, search, load, download, user_selected>>

\* action_clear_range
ClearRange ==
  /\ mounted
  /\ used < MaxActions
  /\ LET a1 == save_manga_cache([app EXCEPT !.range_start = None,
                                            !.range_end = None])
         r == update_state(a1, session_file)
     IN app' = r.app /\ session_file' = r.file
  /\ lastOp' = "clear_range"
  /\ used' = used + 1
  /\ UNCHANGED <<rng, call, sess, writers>>
  /\ UNCHANGED <<mounted, disk, search, load, download, user_selected>>

\* ------------------------------------------------------------ sources
\* The selected_sources list after toggling name (tui.py 182-186).
toggle(sources, name) ==
  IF \E i \in 1..Len(sources) : sources[i] = name
  THEN IF Len(sources) > 1
       THEN SelectSeq(sources, LAMBDA x : x # name)
       ELSE sources
  ELSE Append(sources, name)

\* action_toggle_source with the source list's cursor on row index.
ToggleSource(index) ==
  /\ mounted
  /\ used < MaxActions
  /\ LET a1 == [app EXCEPT !.selected_sources =
                             toggle(app.selected_sources,
                                    app.available_sources[index + 1])]
         r == save_session(sync_selected_sources(a1))
     IN app' = r.app /\ session_file' = r.file
  /\ lastOp' = "toggle_source"
  /\ used' = used + 1
  /\ UNCHANGED <<rng, call, sess, writers>>
  /\ UNCHANGED <<mounted, disk, search, load, download, user_selected>>

\* ------------------------------------------------------------ user actions
\* on_input_submitted: starts a search_manga worker, unless the text is
\* blank.
Submit(text) ==
  /\ mounted
  /\ LET query == Strip(text, Whitespace)
     IN IF query = << >>
        THEN /\ lastOp' = "submit_blank"
             /\ UNCHANGED <<app, search, used>>
        ELSE /\ used < MaxActions
             /\ HasFree(search)
             /\ app' = [app EXCEPT !.last_query = Some(query)]
             /\ search' = Started(search, [pc |-> "begin", query |-> query])
             /\ lastOp' = "submit"
             /\ used' = used + 1
  /\ UNCHANGED <<rng, call, sess, writers>>
  /\ UNCHANGED <<mounted, session_file, disk, load, download, user_selected>>

\* The selection made for entry (source, manga) of the result list
\* (tui.py 141-145 and 551-554).
select(a, source, manga) ==
  [a EXCEPT !.selected_manga_source = Some(source),
            !.selected_manga = Some(manga),
            !.source_name = source,
            !.client = get_client(source)]

\* A load_chapters worker as load_chapters(slug) starts it; src records the
\* source of the context it is started for (history, not read by the code).
NewLoad(source, slug) == [pc |-> "begin", slug |-> slug, src |-> source]

\* on_list_view_selected for the result list (tui.py 138-148).
SelectResult(index) ==
  /\ mounted
  /\ used < MaxActions
  /\ HasFree(load)
  /\ LET source == app.mangas[index + 1][1]
         manga == app.mangas[index + 1][2]
         r == update_state(select(app, source, manga), session_file)
     IN /\ app' = r.app
        /\ session_file' = r.file
        /\ load' = Started(load, NewLoad(source, manga.slug))
  /\ user_selected' = TRUE
  /\ lastOp' = "select_result"
  /\ used' = used + 1
  /\ UNCHANGED <<rng, call, sess, writers>>
  /\ UNCHANGED <<mounted, disk, search, download>>

\* action_download: starts a download_range worker.
Download ==
  /\ mounted
  /\ used < MaxActions
  /\ HasFree(download)
  /\ download' = Started(download, [pc |-> "begin"])
  /\ lastOp' = "download"
  /\ used' = used + 1
  /\ UNCHANGED <<rng, call, sess, writers>>
  /\ UNCHANGED <<app, mounted, session_file, disk, search, load, user_selected>>

\* ------------------------------------------------------------ reconciliation
\* The storage probe of one chapter, looking for the directory only.
ChapterOnDisk_dir_only(d, manga_dir, chapter) ==
  EntryExists(d, manga_dir, sanitize_filename(chapter.title))

\* The storage probe of one chapter (tui.py 475-478).
ChapterOnDisk(d, manga_dir, chapter) ==
  LET chapter_name == sanitize_filename(chapter.title)
  IN \/ EntryExists(d, manga_dir, chapter_name)
     \/ EntryExists(d, manga_dir, chapter_name \o CbzSuffix)

\* The set _sync_downloaded_from_disk builds for the chapter list.
Reconciled(d, manga_dir, chapters) ==
  IF ~MangaDirExists(d, manga_dir) THEN {}
  ELSE UNION {{chapters[i].id, chapters[i].slug} :
                i \in {j \in 1..Len(chapters) :
                         ChapterOnDisk(d, manga_dir, chapters[j])}}

\* _sync_downloaded_from_disk
sync_downloaded_from_disk(a, d) ==
  IF IsNone(a.selected_manga) THEN a
  ELSE [a EXCEPT !.downloaded_chapters =
          Put(a.downloaded_chapters, Key(a),
              Reconciled(d, sanitize_filename(Get(a.selected_manga).title),
                         a.chapters))]

\* ------------------------------------------------------------ load_chapters
\* The worker thread starts: it reads self.client and sends the request
\* (tui.py 388-389).
LoadBegin(t) ==
  /\ t.pc = "begin"
  /\ load' = Moved(load, t, [pc |-> "call", slug |-> t.slug, src |-> t.src,
                             client |-> app.client])
  /\ lastOp' = "load_begin"
  /\ UNCHANGED <<rng, call, sess, writers>>
  /\ UNCHANGED <<app, mounted, session_file, disk, search, download,
                 user_selected, used>>

\* The range bounds load_chapters restores (tui.py 391-398).
restore_range(a, slug) ==
  LET key == <<a.source_name, slug>>
  IN IF key \in DOMAIN a.manga_cache
     THEN [a EXCEPT !.range_start = a.manga_cache[key].range_start,
                    !.range_end = a.manga_cache[key].range_end]
     ELSE [a EXCEPT !.range_start = None, !.range_end = None]

\* What load_chapters does with the chapter list it received (390-399).
apply_chapters(a, slug, chapters, d) ==
  sync_downloaded_from_disk(
    restore_range([a EXCEPT !.chapters = chapters], slug), d)

\* A download_range worker holds the set object it took from
\* downloaded_chapters; once the entry of its key is replaced by a new set,
\* what the worker adds no longer shows in downloaded_chapters.
Detached(t, a) ==
  IF t.pc = "loop" /\ IsSome(a.selected_manga) /\ t.key = Key(a)
  THEN [t EXCEPT !.attached = FALSE] ELSE t

RECURSIVE SumOf(_, _)
SumOf(b, S) ==
  IF S = {} THEN 0
  ELSE LET t == CHOOSE x \in S : TRUE IN b[t] + SumOf(b, S \ {t})

Detach(dl, a) ==
  [r \in {Detached(t, a) : t \in DOMAIN dl} |->
     SumOf(dl, {t \in DOMAIN dl : Detached(t, a) = r})]

\* client.chapters(slug) returns or raises (tui.py 389-404). An exception
\* ends the worker: nothing in load_chapters catches it.
LoadReturn(t, netOk) ==
  /\ t.pc = "call"
  /\ LET r == ChaptersOf(t.client, t.slug)
     IN IF netOk /\ r.ok
        THEN /\ app' = apply_chapters(app, t.slug, r.list, disk)
             /\ download' = Detach(download, app)
             /\ lastOp' = "load_done"
        ELSE /\ UNCHANGED <<app, download>>
             /\ lastOp' = "load_raise"
  /\ load' = Ended(load, t)
  /\ UNCHANGED <<rng, call, sess, writers>>
  /\ UNCHANGED <<mounted, session_file, disk, search, user_selected, used>>

\* ------------------------------------------------------------ search_manga
\* A worker thread without the check for an empty source list: its loop
\* runs over nothing and it publishes an empty result list.
SearchBegin_unchecked(t) ==
  /\ t.pc = "begin"
  /\ IF app.selected_sources = << >>
     THEN /\ search' = Ended(search, t)
          /\ app' = [app EXCEPT !.mangas = << >>]
          /\ lastOp' = "search_done"
     ELSE /\ search' = Moved(search, t,
                             [pc |-> "call", query |-> t.query, i |-> 1,
                              source |-> app.selected_sources[1],
                              results |-> << >>,
                              began_with |-> app.selected_sources])
          /\ lastOp' = "search_begin"
          /\ UNCHANGED app
  /\ UNCHANGED <<rng, call, sess, writers>>
  /\ UNCHANGED <<mounted, session_file, disk, load, download,
                 user_selected, used>>

\* The worker thread starts (tui.py 370-377): with no source selected it
\* logs and returns, else it sends the first source's request. began_with
\* is history, the source list as it was then: the worker itself holds no
\* copy, its `sources` is the list the handlers change in place.
SearchBegin(t) ==
  /\ t.pc = "begin"
  /\ IF app.selected_sources = << >>
     THEN /\ search' = Ended(search, t)
          /\ lastOp' = "search_nosource"
     ELSE /\ search' = Moved(search, t,
                             [pc |-> "call", query |-> t.query, i |-> 1,
                              source |-> app.selected_sources[1],
                              results |-> << >>,
                              began_with |-> app.selected_sources])
          /\ lastOp' = "search_begin"
  /\ UNCHANGED <<rng, call, sess, writers>>
  /\ UNCHANGED <<app, mounted, session_file, disk, load, download,
                 user_selected, used>>

\* The entries one source adds to the results (tui.py 378-379).
Tagged(source, ms) == [k \in 1..Len(ms) |-> <<source, ms[k]>>]

\* Index of the first entry of mangas that is the last selection of the
\* session file, 0 when there is none (tui.py 548-549).
RestoreIndex(a) ==
  LET hits == {k \in 1..Len(a.mangas) :
                 /\ a.mangas[k][1] = Get(a.last_selected_source)
                 /\ a.mangas[k][2].slug = Get(a.last_selected_slug)}
  IN IF hits = {} THEN 0 ELSE CHOOSE k \in hits : \A j \in hits : k <= j

\* Whether _restore_selection_after_search selects an entry.
Restores(a) ==
  /\ IsSome(a.last_selected_slug) /\ IsSome(a.last_selected_source)
  /\ RestoreIndex(a) # 0

\* _restore_selection_after_search, but for the worker it starts.
restore_selection_after_search(a) ==
  IF Restores(a)
  THEN select(a, a.mangas[RestoreIndex(a)][1], a.mangas[RestoreIndex(a)][2])
  ELSE a

\* The request of the current source returns or raises. An exception ends
\* the worker: nothing in search_manga catches it. After the last source the
\* results are published (tui.py 380-384).
SearchReturn(t, netOk) ==
  /\ t.pc = "call"
  /\ LET results == t.results \o
                      Tagged(t.source, SearchResults(get_client(t.source), t.query))
     IN IF ~netOk
        THEN /\ search' = Ended(search, t)
             /\ lastOp' = "search_raise"
             /\ UNCHANGED <<app, session_file, load>>
        ELSE IF t.i < Len(app.selected_sources)
        THEN /\ search' = Moved(search, t,
                                [t EXCEPT !.i = t.i + 1,
                                          !.source = app.selected_sources[t.i + 1],
                                          !.results = results])
             /\ lastOp' = "search_next"
             /\ UNCHANGED <<app, session_file, load>>
        ELSE LET r == update_state([app EXCEPT !.mangas = results],
                                   session_file)
                 a2 == restore_selection_after_search(r.app)
             IN /\ Restores(r.app) => HasFree(load)
                /\ app' = a2
                /\ session_file' = r.file
                /\ load' = IF Restores(r.app)
                           THEN Started(load,
                                        NewLoad(Get(a2.selected_manga_source),
                                                Get(a2.selected_manga).slug))
                           ELSE load
                /\ search' = Ended(search, t)
                /\ lastOp' = "search_done"
  /\ UNCHANGED <<rng, call, sess, writers>>
  /\ UNCHANGED <<mounted, disk, download, user_selected, used>>

\* ------------------------------------------------------------ download_range
\* The range download_range resolves (tui.py 414-417).
resolve_range(a) ==
  LET s0 == OrElse(a.range_start, 1)
      e0 == OrElse(a.range_end, Len(a.chapters))
  IN IF s0 > e0 THEN [start |-> e0, end |-> s0]
     ELSE [start |-> s0, end |-> e0]

\* The chapters download_range selects (tui.py 418): the slice is not
\* clamped to the chapter list.
selected_chapters(a) ==
  PySlice(a.chapters, resolve_range(a).start - 1, resolve_range(a).end)

\* The worker thread starts (tui.py 408-422): it resolves the range against
\* the chapter list and takes the context's downloaded set.
DownloadBegin(t) ==
  /\ t.pc = "begin"
  /\ IF IsNone(app.selected_manga)
     THEN /\ download' = Ended(download, t)
          /\ lastOp' = "download_nomanga"
          /\ UNCHANGED app
     ELSE IF app.chapters = << >>
     THEN /\ download' = Ended(download, t)
          /\ lastOp' = "download_nochapters"
          /\ UNCHANGED app
     ELSE
       LET r == resolve_range(app)
       IN /\ download' = Moved(download, t,
                            [pc |-> "loop", start |-> r.start, end |-> r.end,
                             count |-> Len(app.chapters),
                             selected |-> selected_chapters(app),
                             idx |-> 1, key |-> Key(app), attached |-> TRUE])
          /\ app' = IF Key(app) \in DOMAIN app.downloaded_chapters THEN app
                    ELSE [app EXCEPT !.downloaded_chapters =
                            Put(app.downloaded_chapters, Key(app), {})]
          /\ lastOp' = "download_begin"
  /\ UNCHANGED <<rng, call, sess, writers>>
  /\ UNCHANGED <<mounted, session_file, disk, search, load, user_selected, used>>

\* Ways one download_chapter call can fail on the network.
FailKinds == {"request", "stream"}

\* One round of the loop (tui.py 423-430): download_chapter with the
\* client and the title the app holds now, then the chapter is recorded.
\* An exception ends the worker: nothing in download_range catches it.
\* With an empty selection the loop has no round and the worker ends.
DownloadStep(t, netOk, failAt, failKind) ==
  /\ t.pc = "loop"
  /\ IF t.selected = << >>
     THEN /\ download' = Ended(download, t)
          /\ lastOp' = "download_nothing"
          /\ UNCHANGED <<app, disk>>
     ELSE
       LET chapter == t.selected[t.idx]
           up == ChapterPagesOf(app.client, chapter.id)
           r == download_chapter(disk, Get(app.selected_manga).title,
                                 chapter, FALSE, None,
                                 [up EXCEPT !.ok = up.ok /\ netOk],
                                 failAt, failKind)
       IN /\ disk' = r.disk
          /\ IF r.result # "ok"
             THEN /\ download' = Ended(download, t)
                  /\ lastOp' = "download_raise"
                  /\ UNCHANGED app
             ELSE /\ app' = IF t.attached
                            THEN [app EXCEPT !.downloaded_chapters[t.key] =
                                    @ \cup {chapter.id, chapter.slug}]
                            ELSE app
                  /\ download' = IF t.idx = Len(t.selected)
                                 THEN Ended(download, t)
                                 ELSE Moved(download, t,
                                            [t EXCEPT !.idx = t.idx + 1])
                  /\ lastOp' = IF t.idx = Len(t.selected)
                               THEN "download_done" ELSE "download_next"
  /\ UNCHANGED <<rng, call, sess, writers>>
  /\ UNCHANGED <<mounted, session_file, search, load, user_selected, used>>

\* The interval of rows the status line names (_update_status, tui.py
\* 448-461): None when it shows "Range: (none)", else the 0-based rows
\* (lo, hi) whose titles it shows.
status_range(a) ==
  IF ~(TruthyInt(a.range_start) \/ TruthyInt(a.range_end)) THEN None
  ELSE IF a.chapters = << >> THEN None
  ELSE
    LET start_idx == OrElse(a.range_start, 1) - 1
        end_idx == OrElse(a.range_end, Len(a.chapters)) - 1
        lo == Min(start_idx, end_idx)
        hi == Max(start_idx, end_idx)
    IN Some(<<Max(0, Min(lo, Len(a.chapters) - 1)),
              Max(0, Min(hi, Len(a.chapters) - 1))>>)

\* ------------------------------------------------------------ specification
Next ==
  \/ Mount
  \/ \E text \in InputTexts : Submit(text)
  \/ \E index \in 0..(Len(app.mangas) - 1) : SelectResult(index)
  \/ \E index \in ChapterRows : ClickChapter(index)
  \/ \E is_start \in BOOLEAN, index \in ChapterRows :
       SetRangeFromCursor(is_start, index)
  \/ SetRangeNoCursor
  \/ ClearRange
  \/ \E index \in 0..(Len(app.available_sources) - 1) : ToggleSource(index)
  \/ Download
  \/ \E t \in BagToSet(search) : SearchBegin(t)
  \/ \E t \in BagToSet(search), netOk \in BOOLEAN : SearchReturn(t, netOk)
  \/ \E t \in BagToSet(load) : LoadBegin(t)
  \/ \E t \in BagToSet(load), netOk \in BOOLEAN : LoadReturn(t, netOk)
  \/ \E t \in BagToSet(download) : DownloadBegin(t)
  \/ \E t \in BagToSet(download), netOk \in BOOLEAN, failAt \in 0..MaxPages,
        failKind \in FailKinds :
       DownloadStep(t, netOk, failAt, failKind)

\* The terminal session: the UI handlers and the worker threads.
Spec == Init /\ [][Next]_vars

\* ------------------------------------------------------------ range resolution
\* One resolution of a range against a chapter list, by the CLI's
\* _select_range or by the TUI's download_range.
MaxRangeLen == MaxChapters + 1
ChapterList(n) == [i \in 1..n |-> KissChapter("a", n + 1 - i)]

\* --start / --end of the CLI: any integer, or not given.
CliBounds(n) == {None} \cup {Some(k) : k \in (0 - 1)..(n + 1)}
\* A bound is session-made when the handlers of the TUI can write it: they
\* write None or a row index plus one.
SessionMade(o) == IF IsNone(o) THEN TRUE ELSE Get(o) >= 1

RangeInit ==
  /\ app = NewApp
  /\ mounted = FALSE
  /\ session_file = None
  /\ disk = EmptyDisk
  /\ search = EmptyBag
  /\ load = EmptyBag
  /\ download = EmptyBag
  /\ lastOp = "init"
  /\ user_selected = FALSE
  /\ used = 0
  /\ call = NoCall
  /\ sess = NoSession
  /\ writers = NoWriters
  /\ \E n \in 1..MaxRangeLen :
       \E s \in CliBounds(n), e \in CliBounds(n) :
         rng = [pc |-> "input", chapters |-> ChapterList(n),
                start |-> s, end |-> e, selected |-> << >>,
                status |-> None]

\* download --start s --end e (cli.py 29-38)
CliSelectRange ==
  /\ rng.pc = "input"
  /\ rng' = [rng EXCEPT !.pc = "cli",
                        !.selected = select_range(rng.chapters, rng.start,
                                                  rng.end)]
  /\ UNCHANGED <<app, mounted, session_file, disk, search, load, download,
                 lastOp, user_selected, used, call, sess, writers>>

\* download_range with the bounds and the chapter list the app holds
\* (tui.py 414-418), and the range its status line shows meanwhile
\* (_set_status_progress calls _update_status, tui.py 424).
TuiDownloadRange ==
  /\ rng.pc = "input"
  /\ SessionMade(rng.start) /\ SessionMade(rng.end)
  /\ LET a == [NewApp EXCEPT !.chapters = rng.chapters,
                             !.range_start = rng.start,
                             !.range_end = rng.end]
     IN rng' = [rng EXCEPT !.pc = "tui",
                           !.selected = selected_chapters(a),
                           !.status = status_range(a)]
  /\ UNCHANGED <<app, mounted, session_file, disk, search, load, download,
                 lastOp, user_selected, used, call, sess, writers>>

RangeNext == CliSelectRange \/ TuiDownloadRange

SpecRange == RangeInit /\ [][RangeNext]_vars

\* ------------------------------------------------------------ download engine
\* download_chapter called again and again for one chapter, as every run of
\* download_range does for a chapter of its range (tui.py 423-428), with or
\* without the archive the CLI's --cbz asks for; the site may serve a
\* shorter or a longer page list each time.
DlManga == MangaA
DlChapter == KissChapter("a", 1)
PageLists == {[i \in 1..n |-> Url(i)] : n \in 0..MaxPages}

\* The files of the chapter's directory, none when it does not exist.
ChapterFiles(d) ==
  LET manga_name == sanitize_filename(DlManga.title)
      chapter_name == sanitize_filename(DlChapter.title)
  IN IF EntryExists(d, manga_name, chapter_name)
     THEN d[manga_name][chapter_name].files ELSE << >>

DlInit ==
  /\ app = NewApp
  /\ mounted = FALSE
  /\ session_file = None
  /\ disk = EmptyDisk
  /\ search = EmptyBag
  /\ load = EmptyBag
  /\ download = EmptyBag
  /\ lastOp = "init"
  /\ user_selected = FALSE
  /\ used = 0
  /\ rng = NoRange
  /\ call = NoCall
  /\ sess = NoSession
  /\ writers = NoWriters

\* One call download_chapter(client, manga_title, chapter, out_dir, cbz=cbz)
\* (downloader.py 17-61). call records what the directory held before, the
\* page list used, the pages requested, the outcome, the outcome of the call
\* before, and whether that call used the same page list.
DownloadChapterCall(pages, netOk, cbz, failAt, failKind) ==
  /\ LET r == download_chapter(disk, DlManga.title, DlChapter, cbz, None,
                               [ok |-> netOk, pages |-> pages],
                               failAt, failKind)
     IN /\ disk' = r.disk
        /\ call' = [pc |-> "done", before |-> ChapterFiles(disk),
                    pages |-> r.pages, fetched |-> r.fetched,
                    result |-> r.result, failAt |-> failAt,
                    prior |-> IF call.pc = "none" THEN "none"
                              ELSE call.result,
                    same |-> IF call.pc = "none" THEN FALSE
                             ELSE call.pages = r.pages]
  /\ UNCHANGED <<app, mounted, session_file, search, load, download,
                 lastOp, user_selected, used, rng, sess, writers>>

DlNext ==
  \E pages \in PageLists, netOk \in BOOLEAN, cbz \in BOOLEAN,
     failAt \in 0..MaxPages, failKind \in FailKinds :
    DownloadChapterCall(pages, netOk, cbz, failAt, failKind)

SpecDL == DlInit /\ [][DlNext]_vars

\* ------------------------------------------------------------ session documents
\* JSON values: a record whose one field names the JSON type.
JNull == [null |-> TRUE]
JStr(s) == [str |-> s]
JInt(n) == [int |-> n]
JList(xs) == [list |-> xs]
JObj(fields) == [obj |-> fields]
IsJStr(v) == "str" \in DOMAIN v

\* json.dumps of the values a payload holds: None, str, int, list of str.
JOptStr(o) == IF IsNone(o) THEN JNull ELSE JStr(Get(o))
JOptInt(o) == IF IsNone(o) THEN JNull ELSE JInt(Get(o))
JStrList(xs) == JList([i \in 1..Len(xs) |-> JStr(xs[i])])

\* json.dumps(payload) of _save_session (tui.py 501).
json_dumps(p) ==
  JObj([last_query |-> JOptStr(p.last_query),
        selected_source |-> JOptStr(p.selected_source),
        selected_slug |-> JOptStr(p.selected_slug),
        selected_title |-> JOptStr(p.selected_title),
        range_start |-> JOptInt(p.range_start),
        range_end |-> JOptInt(p.range_end),
        sources |-> JStrList(p.sources),
        theme |-> JStr(p.theme),
        theme_name |-> JOptStr(p.theme_name)])

\* What _load_session can find at state_path: no file, a file that cannot
\* be read, bytes that are not UTF-8, text that is not JSON, or a JSON value.
\* A file is [kind |-> "absent"], "unreadable", "not_utf8", "not_json", or
JsonFile(v) == [kind |-> "json", value |-> v]

\* The file a session payload was written to, if any.
Document(f) ==
  IF IsNone(f) THEN [kind |-> "absent"] ELSE JsonFile(json_dumps(Get(f)))

\* payload.get(key): None for a key the object does not have.
Field(payload, key) ==
  IF key \in DOMAIN payload.obj THEN payload.obj[key] ELSE JNull

\* payload.get(key) if isinstance(payload.get(key), str) else None
StrField(payload, key) ==
  IF IsJStr(Field(payload, key)) THEN Some(Field(payload, key).str) ELSE None

\* The list comprehension of tui.py 528-529.
SourcesField(payload) ==
  IF "list" \in DOMAIN Field(payload, "sources")
  THEN LET strs == SelectSeq(Field(payload, "sources").list, IsJStr)
       IN [i \in 1..Len(strs) |-> strs[i].str]
  ELSE << >>

\* _load_session on any file: the app afterwards and the exception that
\* leaves the method ("none" when it returns).
read_session(a, doc) ==
  IF doc.kind \in {"absent", "unreadable", "not_json"}
  THEN [app |-> a, raised |-> "none"]
  ELSE IF doc.kind = "not_utf8"
  THEN [app |-> a, raised |-> "UnicodeDecodeError"]
  ELSE IF "obj" \notin DOMAIN doc.value
  THEN [app |-> a, raised |-> "AttributeError"]
  ELSE
    LET payload == doc.value
        theme == StrField(payload, "theme")
        theme_name == StrField(payload, "theme_name")
    IN [app |->
          [a EXCEPT !.last_query = StrField(payload, "last_query"),
                    !.last_selected_source =
                       StrField(payload, "selected_source"),
                    !.last_selected_slug = StrField(payload, "selected_slug"),
                    !.last_selected_title =
                       StrField(payload, "selected_title"),
                    !.theme_mode =
                       IF theme \in {Some("dark"), Some("light")}
                       THEN Get(theme) ELSE a.theme_mode,
                    !.theme_name =
                       IF theme_name \notin {None, Some("")}
                       THEN theme_name ELSE a.theme_name,
                    !.selected_sources = SourcesField(payload)],
        raised |-> "none"]

\* ------------------------------------------------------------ session file study
\* sess is [pc |-> "state"] before a save and, once there is a file,
\* [pc, doc, by, raised]: the file, the app that wrote it if one did, and
\* the exception the load raised; after a startup also `stored`.
\* The session files a startup can find. A JSON object has, for each key,
\* a value of the type _save_session writes, a value of another type, or
\* no value at all.
Missing == [missing |-> TRUE]

\* The object with the keys that have a value.
ObjectOf(fields) ==
  JObj([k \in {key \in DOMAIN fields : fields[key] # Missing} |-> fields[k]])

\* The session states a save can start from.
Selections ==
  {[source |-> None, manga |-> None],
   [source |-> Some("kisslove"), manga |-> Some(MangaA)],
   [source |-> Some("mangakatana"), manga |-> Some(MangaC)]}
SourceLists ==
  {<<"kisslove">>, <<"mangakatana">>, <<"kisslove", "mangakatana">>,
   <<"mangakatana", "kisslove">>}
Themes == {"textual-dark", "textual-light", "solarized-dark"}

SessionInit ==
  /\ mounted = FALSE
  /\ session_file = None
  /\ disk = EmptyDisk
  /\ search = EmptyBag /\ load = EmptyBag /\ download = EmptyBag
  /\ lastOp = "init" /\ user_selected = FALSE /\ used = 0
  /\ rng = NoRange /\ call = NoCall /\ writers = NoWriters
  /\ \/ /\ app = NewApp
        /\ \/ \E kind \in {"absent", "unreadable", "not_utf8", "not_json"} :
                sess = [pc |-> "file", doc |-> [kind |-> kind], by |-> None,
                        raised |-> "none"]
           \/ \E v \in {JNull, JList(<< >>), JInt(1)} :
                sess = [pc |-> "file", doc |-> JsonFile(v), by |-> None,
                        raised |-> "none"]
           \/ \E q \in {Missing, JNull, JStr(<<"x">>), JInt(1)},
                 so \in {JNull, JStr("kisslove"), JInt(1)},
                 sl \in {JNull, JStr(MangaA.slug), JList(<< >>)},
                 ti \in {JNull, JStr(MangaA.title), JInt(1)},
                 th \in {Missing, JStr("dark"), JStr("light"), JStr("blue"),
                         JInt(1)},
                 tn \in {JNull, JStr(""), JStr("textual-light"), JInt(1)},
                 ss \in {Missing, JNull, JList(<< >>),
                         JStrList(<<"mangakatana", "kisslove">>),
                         JList(<<JInt(1), JStr("mangakatana")>>)} :
                sess = [pc |-> "file",
                        doc |-> JsonFile(ObjectOf(
                          [last_query |-> q, selected_source |-> so,
                           selected_slug |-> sl, selected_title |-> ti,
                           theme |-> th, theme_name |-> tn,
                           sources |-> ss])),
                        by |-> None, raised |-> "none"]
     \/ /\ sess = [pc |-> "state"]
        /\ \E q \in {None, Some(<< >>), Some(<<"x">>)}, sel \in Selections,
              ss \in SourceLists, th \in Themes, tm \in {"dark", "light"},
              rs \in {None, Some(1)}, re \in {None, Some(2)} :
             app = [NewApp EXCEPT !.last_query = q,
                                  !.selected_manga_source = sel.source,
                                  !.selected_manga = sel.manga,
                                  !.selected_sources = ss,
                                  !.theme = th, !.theme_name = Some(th),
                                  !.theme_mode = tm,
                                  !.range_start = rs, !.range_end = re]

\* _save_session in a running session.
SaveSession ==
  /\ sess.pc = "state"
  /\ LET r == save_session(app)
     IN /\ app' = r.app
        /\ sess' = [pc |-> "written", doc |-> Document(r.file),
                    by |-> Some(r.app), raised |-> "none"]
  /\ UNCHANGED <<mounted, session_file, disk, search, load, download,
                 lastOp, user_selected, used, rng, call, writers>>

\* The app quits and a new one is constructed on the file it left.
NewSession ==
  /\ sess.pc = "written"
  /\ app' = NewApp
  /\ sess' = [sess EXCEPT !.pc = "file"]
  /\ UNCHANGED <<mounted, session_file, disk, search, load, download,
                 lastOp, user_selected, used, rng, call, writers>>

\* _load_session in a fresh session.
LoadSession ==
  /\ sess.pc = "file"
  /\ LET r == read_session(app, sess.doc)
     IN /\ app' = r.app
        /\ sess' = [sess EXCEPT !.pc = "loaded", !.raised = r.raised]
  /\ UNCHANGED <<mounted, session_file, disk, search, load, download,
                 lastOp, user_selected, used, rng, call, writers>>

\* The app starts on the file and quits with no user action: on_mount,
\* which ends at once when _load_session raises. `stored` is the file as
\* it was found.
Startup ==
  /\ sess.pc = "file"
  /\ LET l == read_session(app, sess.doc)
         r == on_mount(l.app, None)
     IN IF l.raised # "none"
        THEN /\ app' = l.app
             /\ sess' = [pc |-> "crashed", doc |-> sess.doc,
                         stored |-> sess.doc, by |-> sess.by,
                         raised |-> l.raised]
        ELSE /\ app' = r.app
             /\ sess' = [pc |-> "started",
                         doc |-> IF IsNone(r.file) THEN sess.doc
                                 ELSE Document(r.file),
                         stored |-> sess.doc, by |-> sess.by,
                         raised |-> "none"]
  /\ UNCHANGED <<mounted, session_file, disk, search, load, download,
                 lastOp, user_selected, used, rng, call, writers>>

SessionNext == SaveSession \/ NewSession \/ LoadSession \/ Startup

SpecSession == SessionInit /\ [][SessionNext]_vars

\* ------------------------------------------------------------ session file writes
\* The keys of the payload in the order _save_session writes them
\* (tui.py 490-498).
PayloadKeys ==
  <<"last_query", "selected_source", "selected_slug", "selected_title",
    "range_start", "range_end", "sources", "theme", "theme_name">>

\* Sum of f over 1..n.
RECURSIVE SumTo(_, _)
SumTo(f, n) == IF n = 0 THEN 0 ELSE f[n] + SumTo(f, n - 1)

\* The number of characters of json.dumps(v): null, a non-negative int
\* below 10, a string without characters to escape, a list with ", "
\* between its elements, an object with ": " after each key.
RECURSIVE JsonLen(_)
JsonLen(v) ==
  IF "null" \in DOMAIN v THEN 4
  ELSE IF "int" \in DOMAIN v THEN 1
  ELSE IF "str" \in DOMAIN v THEN Len(v.str) + 2
  ELSE IF "list" \in DOMAIN v
  THEN 2 + SumTo([i \in 1..Len(v.list) |-> JsonLen(v.list[i])], Len(v.list))
         + 2 * Max(0, Len(v.list) - 1)
  ELSE 2 + SumTo([i \in 1..Len(PayloadKeys) |->
                    Len(PayloadKeys[i]) + 4 + JsonLen(v.obj[PayloadKeys[i]])],
                 Len(PayloadKeys))
         + 2 * (Len(PayloadKeys) - 1)

\* The file as the writes leave it: the text of the payload written last,
\* followed by `rest` characters of a longer text written before.
\* A file that does not exist is [kind |-> "absent", rest |-> 0].
FileLen(file) ==
  IF file.kind = "text" THEN JsonLen(json_dumps(file.payload)) + file.rest
  ELSE 0

\* open(state_path, "w") of write_text: the file is created or truncated.
open_w(file) == [kind |-> "empty", rest |-> 0]

\* write and close of write_text on a handle opened at offset 0: the text
\* replaces the first characters of the file, what lies beyond it stays.
write_at_0(file, payload) ==
  [kind |-> "text", payload |-> payload,
   rest |-> Max(0, FileLen(file) - JsonLen(json_dumps(payload)))]

\* Two threads call _save_session: the UI thread ("ui"), from the handlers,
\* and the thread of the search worker ("worker", tui.py 382).
\* writers is [ui, worker, file]: per thread the position in _save_session
\* ("idle", "built" once the payload is built, "open" once the file is
\* open, and for the worker "done") with the payload, and the file.
WriteInit ==
  /\ mounted = TRUE
  /\ session_file = None
  /\ disk = EmptyDisk
  /\ search = EmptyBag /\ load = EmptyBag /\ download = EmptyBag
  /\ lastOp = "init" /\ user_selected = TRUE /\ used = 0
  /\ rng = NoRange /\ call = NoCall /\ sess = NoSession
  /\ \E rs \in {None, Some(1)}, re \in {None, Some(2)}, ss \in SourceLists :
       app = [NewApp EXCEPT !.last_query = Some(<<"x">>),
                            !.selected_manga_source = Some("kisslove"),
                            !.selected_manga = Some(MangaA),
                            !.selected_sources = ss,
                            !.theme_name = Some("textual-dark"),
                            !.range_start = rs, !.range_end = re]
  /\ writers = [ui |-> [pc |-> "idle"], worker |-> [pc |-> "idle"],
                file |-> [kind |-> "absent", rest |-> 0]]

\* The UI thread handles a click on a chapter (tui.py 247-260) up to the
\* point where _save_session has built its payload.
UiSave(index) ==
  /\ writers.ui.pc = "idle"
  /\ used < MaxActions
  /\ LET r == save_session(save_manga_cache(
                                update_range_from_click(app, index)))
     IN /\ app' = r.app
        /\ writers' = [writers EXCEPT
                         !.ui = [pc |-> "built", payload |-> Get(r.file)]]
  /\ used' = used + 1
  /\ lastOp' = "ui_save"
  /\ UNCHANGED <<mounted, session_file, disk, search, load, download,
                 user_selected, rng, call, sess>>

\* The search worker reaches _update_state (tui.py 382) and _save_session
\* builds its payload in the worker's thread.
WorkerSave ==
  /\ writers.worker.pc = "idle"
  /\ LET r == save_session(app)
     IN /\ app' = r.app
        /\ writers' = [writers EXCEPT
                         !.worker = [pc |-> "built", payload |-> Get(r.file)]]
  /\ lastOp' = "worker_save"
  /\ UNCHANGED <<mounted, session_file, disk, search, load, download,
                 user_selected, used, rng, call, sess>>

\* write_text opens the file (tui.py 501).
OpenFile(th) ==
  /\ writers[th].pc = "built"
  /\ writers' = [writers EXCEPT ![th].pc = "open",
                                !.file = open_w(writers.file)]
  /\ lastOp' = "open"
  /\ UNCHANGED <<app, mounted, session_file, disk, search, load, download,
                 user_selected, used, rng, call, sess>>

\* write_text writes the text and closes the file.
WriteFile(th) ==
  /\ writers[th].pc = "open"
  /\ writers' = [writers EXCEPT
                   ![th] = [pc |-> IF th = "ui" THEN "idle" ELSE "done"],
                   !.file = write_at_0(writers.file, writers[th].payload)]
  /\ lastOp' = "write"
  /\ UNCHANGED <<app, mounted, session_file, disk, search, load, download,
                 user_selected, used, rng, call, sess>>

WriteNext ==
  \/ \E index \in 0..(MaxChapters - 1) : UiSave(index)
  \/ WorkerSave
  \/ \E th \in {"ui", "worker"} : OpenFile(th)
  \/ \E th \in {"ui", "worker"} : WriteFile(th)

SpecWrite == WriteInit /\ [][WriteNext]_vars

\* ------------------------------------------------------------ search
\* search_manga on its own: one worker on a source list that no handler
\* changes while it runs. The list is any order of the sources, or empty as
\* the constructor leaves it; the app holds the results of an earlier
\* search or none, and a last selection from the session file or none.
SearchInit ==
  /\ mounted = TRUE
  /\ disk = EmptyDisk
  /\ load = EmptyBag /\ download = EmptyBag
  /\ lastOp = "init" /\ user_selected = FALSE /\ used = 0
  /\ rng = NoRange /\ call = NoCall /\ sess = NoSession
  /\ writers = NoWriters
  /\ \E ss \in SourceLists \cup {<< >>}, f \in InitialSessionFiles,
        earlier \in {<< >>, Tagged("mangakatana", <<MangaC>>)},
        text \in InputTexts \cup {<<"y">>} :
       /\ Strip(text, Whitespace) # << >>
       /\ session_file = f
       /\ app = [sync_selected_sources(
                   [load_session(NewApp, f) EXCEPT !.selected_sources = ss])
                 EXCEPT !.mangas = earlier,
                        !.last_query = Some(Strip(text, Whitespace))]
       /\ search = Started(EmptyBag, [pc |-> "begin",
                                      query |-> Strip(text, Whitespace)])

SearchNext ==
  \/ \E t \in BagToSet(search) : SearchBegin(t)
  \/ \E t \in BagToSet(search), netOk \in BOOLEAN : SearchReturn(t, netOk)

SpecSearch == SearchInit /\ [][SearchNext]_vars

\* ------------------------------------------------------------ properties
\* The active context's key and the range bounds the app holds.
Bounds(a) == [range_start |-> a.range_start, range_end |-> a.range_end]
Unset == [range_start |-> None, range_end |-> None]

\* C1 (as the text has it): the chapters a range resolution selects, in the
\* CLI and in the TUI, are the chapters lo..hi of the list for some
\* 1 <= lo <= hi <= N.
C1_ClosedInterval ==
  rng.pc \in {"cli", "tui"} =>
    \E lo \in 1..Len(rng.chapters), hi \in 1..Len(rng.chapters) :
      /\ lo <= hi
      /\ rng.selected = SubSeq(rng.chapters, lo, hi)

\* C2: a click on a chapter row sets the start bound when it is unset, else
\* sets the end bound when that is unset, else makes the clicked row the
\* start bound and clears the end bound; the other bound is left as it was.
C2_ClickCycle ==
  [][\A index \in ChapterRows :
       ClickChapter(index) =>
         /\ IsNone(app.range_start) =>
              Bounds(app') = [range_start |-> Some(index + 1),
                              range_end |-> app.range_end]
         /\ IsSome(app.range_start) /\ IsNone(app.range_end) =>
              Bounds(app') = [range_start |-> app.range_start,
                              range_end |-> Some(index + 1)]
         /\ IsSome(app.range_start) /\ IsSome(app.range_end) =>
              Bounds(app') = [range_start |-> Some(index + 1),
                              range_end |-> None]]_vars

\* C2 witness: a click made with both bounds set has just restarted the
\* cycle: the start bound is the clicked row and the end bound is unset.
C2_ThirdClick ==
  /\ lastOp = "click_reset"
  /\ IsSome(app.range_start)
  /\ IsNone(app.range_end)

\* C3 (as the text has it): when the request of one source fails during a
\* search, the search goes on to the next source or publishes its results.
C3_FailureIsolated ==
  [][\A t \in BagToSet(search) :
       SearchReturn(t, FALSE) => lastOp' \in {"search_next", "search_done"}]_vars

\* C4 (as the text has it): a chapter load that returns after the user has
\* selected another manga changes neither the chapter list nor the bounds.
C4_StaleLoadDropped ==
  [][\A t \in BagToSet(load) :
       (/\ LoadReturn(t, TRUE)
        /\ IsSome(app.selected_manga)
        /\ t.slug # Get(app.selected_manga).slug)
       => /\ app'.chapters = app.chapters
          /\ Bounds(app') = Bounds(app)]_vars

\* C5 (as the text has it): at most one search, one chapter load and one
\* range download is in flight.
C5_OnePerKind ==
  /\ InFlight(search) <= 1
  /\ InFlight(load) <= 1
  /\ InFlight(download) <= 1

\* C6 (as the text has it): once the user has selected a result, and while
\* the active source is that of the selection, a search that returns leaves
\* the selection, the active source and the client alone.
C6_SearchKeepsSelection ==
  [][\A t \in BagToSet(search), netOk \in BOOLEAN :
       (/\ SearchReturn(t, netOk)
        /\ user_selected
        /\ app.selected_manga_source = Some(app.source_name))
       => /\ app'.selected_manga = app.selected_manga
          /\ app'.selected_manga_source = app.selected_manga_source
          /\ app'.source_name = app.source_name
          /\ app'.client = app.client]_vars

\* The bounds last recorded for the active context, unset when there are none.
Recorded(a) ==
  IF Key(a) \in DOMAIN a.manga_cache THEN a.manga_cache[Key(a)] ELSE Unset

\* C7 (as the text has it): when the chapter load of the active context has
\* ended, by a result or by a failure, the bounds are those recorded for that
\* context, or unset when none are recorded.
C7_BoundsOfActiveContext ==
  [][\A t \in BagToSet(load), netOk \in BOOLEAN :
       (/\ LoadReturn(t, netOk)
        /\ IsSome(app'.selected_manga)
        /\ <<t.src, t.slug>> = Key(app'))
       => Bounds(app') = Recorded(app')]_vars

\* The chapter's directory or archive is present under the manga's
\* sanitized title.
ArtifactPresent(d, a, chapter) ==
  LET manga_dir == sanitize_filename(Get(a.selected_manga).title)
      name == sanitize_filename(chapter.title)
  IN \/ EntryExists(d, manga_dir, name)
     \/ EntryExists(d, manga_dir, name \o CbzSuffix)

\* C8: when a chapter load has just reconciled the downloaded set, every
\* chapter of the list has its id and its slug in the active context's set
\* exactly when its directory or its archive is present, and reconciling
\* again on the same storage changes nothing.
C8_Reconciled ==
  (lastOp = "load_done" /\ IsSome(app.selected_manga)) =>
    /\ \A i \in 1..Len(app.chapters) :
         ({app.chapters[i].id, app.chapters[i].slug}
            \subseteq app.downloaded_chapters[Key(app)])
         <=> ArtifactPresent(disk, app, app.chapters[i])
    /\ sync_downloaded_from_disk(app, disk) = app

\* C8 witness: a reconciliation that found the archive of one chapter and
\* nothing of another.
C8_SomeFoundSomeNot ==
  /\ lastOp = "load_done"
  /\ IsSome(app.selected_manga)
  /\ \E i, j \in 1..Len(app.chapters) :
       /\ ArtifactPresent(disk, app, app.chapters[i])
       /\ app.chapters[i].id \in app.downloaded_chapters[Key(app)]
       /\ ~ArtifactPresent(disk, app, app.chapters[j])
       /\ app.chapters[j].id \notin app.downloaded_chapters[Key(app)]

\* The chapter has a directory holding no file, and no archive.
OnlyEmptyDir(d, a, chapter) ==
  LET manga_dir == sanitize_filename(Get(a.selected_manga).title)
      name == sanitize_filename(chapter.title)
  IN /\ EntryExists(d, manga_dir, name)
     /\ d[manga_dir][name] = EmptyDir
     /\ ~EntryExists(d, manga_dir, name \o CbzSuffix)

\* C9 (as the text has it): a reconciliation does not report a chapter that
\* has only an empty directory.
C9_EmptyDirNotDownloaded ==
  (lastOp = "load_done" /\ IsSome(app.selected_manga)) =>
    \A i \in 1..Len(app.chapters) :
      OnlyEmptyDir(disk, app, app.chapters[i]) =>
        /\ app.chapters[i].id \notin app.downloaded_chapters[Key(app)]
        /\ app.chapters[i].slug \notin app.downloaded_chapters[Key(app)]

\* The pages of the call's page list whose destination file was not there
\* when the call began, and the pages the call requested.
MissingPages ==
  {idx \in 1..Len(call.pages) :
     PageFileName(idx, call.pages[idx]) \notin DOMAIN call.before}
FetchedPages == {call.fetched[k] : k \in 1..Len(call.fetched)}

\* C10: a download_chapter call requests no page whose destination file
\* existed when it began; when it returns normally it has requested exactly
\* the missing pages; it returns normally when it got a page list and none
\* of its requests failed; and a call that follows a successful one with the
\* same page list requests nothing.
C10_Resumable ==
  call.pc = "done" =>
    /\ FetchedPages \subseteq MissingPages
    /\ call.result = "ok" => FetchedPages = MissingPages
    /\ (call.pages # << >>
          /\ (call.failAt = 0 \/ call.failAt > Cardinality(MissingPages)))
       => call.result = "ok"
    /\ (call.prior = "ok" /\ call.same)
       => call.fetched = << >>

\* C10 witness: a call after one that failed found some pages present,
\* requested only the others and returned normally.
C10_ResumedAfterFailure ==
  /\ call.pc = "done"
  /\ call.prior \in {"HTTPError", "StreamError"}
  /\ call.before # << >>
  /\ call.result = "ok"
  /\ call.fetched # << >>
  /\ Len(call.fetched) < Len(call.pages)

\* C11 (as the text has it): when a chapter of a range download has an empty
\* page list and is not the last of the range, the download goes on with the
\* next chapter.
C11_EmptyPageListConfined ==
  [][\A t \in BagToSet(download), failKind \in FailKinds :
       (/\ t.pc = "loop"
        /\ t.selected # << >>
        /\ t.idx < Len(t.selected)
        /\ ChapterPagesOf(app.client, t.selected[t.idx].id) =
             [ok |-> TRUE, pages |-> << >>]
        /\ DownloadStep(t, TRUE, 0, failKind))
       => [t EXCEPT !.idx = t.idx + 1] \in BagToSet(download')]_vars

\* C12 (as the text has it): whatever the session file holds, _load_session
\* raises nothing, and a field it cannot read from the file is left at the
\* value a new app has.
C12_LoadTolerates ==
  sess.pc = "loaded" =>
    /\ sess.raised = "none"
    /\ IF sess.doc.kind = "json" /\ "obj" \in DOMAIN sess.doc.value
       THEN LET payload == sess.doc.value
            IN /\ IsNone(StrField(payload, "last_query"))
                    => app.last_query = NewApp.last_query
               /\ IsNone(StrField(payload, "selected_source"))
                    => app.last_selected_source = NewApp.last_selected_source
               /\ IsNone(StrField(payload, "selected_slug"))
                    => app.last_selected_slug = NewApp.last_selected_slug
               /\ IsNone(StrField(payload, "selected_title"))
                    => app.last_selected_title = NewApp.last_selected_title
               /\ IsNone(StrField(payload, "theme"))
                    => app.theme_mode = NewApp.theme_mode
               /\ IsNone(StrField(payload, "theme_name"))
                    => app.theme_name = NewApp.theme_name
               /\ "list" \notin DOMAIN Field(payload, "sources")
                    => app.selected_sources = NewApp.selected_sources
       ELSE app = NewApp

\* C13: a session written by _save_session and loaded by _load_session in
\* a new app gives the new app the writer's last query, its selection
\* (source, slug, title) as the last selection, its source list, its theme
\* mode and its theme.
C13_RoundTrip ==
  (sess.pc = "loaded" /\ IsSome(sess.by)) =>
    LET w == Get(sess.by)
    IN /\ sess.raised = "none"
       /\ app.last_query = w.last_query
       /\ app.last_selected_source = w.selected_manga_source
       /\ app.last_selected_slug =
            (IF IsSome(w.selected_manga)
             THEN Some(Get(w.selected_manga).slug) ELSE None)
       /\ app.last_selected_title =
            (IF IsSome(w.selected_manga)
             THEN Some(Get(w.selected_manga).title) ELSE None)
       /\ app.selected_sources = w.selected_sources
       /\ app.theme_mode = w.theme_mode
       /\ app.theme_name = Some(w.theme)

\* C13: a session with a query, a selected manga, two sources and a light
\* theme has been written and loaded again.
C13_LoadedWhatWasSaved ==
  /\ sess.pc = "loaded"
  /\ IsSome(sess.by)
  /\ Get(sess.by).last_query = Some(<<"x">>)
  /\ Get(sess.by).selected_manga = Some(MangaC)
  /\ Get(sess.by).selected_sources = <<"mangakatana", "kisslove">>
  /\ Get(sess.by).theme = "textual-light"
  /\ app.last_selected_title = Some(MangaC.title)

\* C14 (as the text has it): when a manga is selected and a call that sets
\* or clears a bound has returned, or the chapter load of the selected manga
\* has delivered its list, the bounds in the session file and the bounds
\* recorded for the active context are the bounds the app holds.
C14_RangeWritten ==
  [][(/\ IsSome(app'.selected_manga)
      /\ \/ /\ used' = used + 1
            /\ lastOp' \in {"set_start", "set_end", "click_start",
                            "click_end", "click_reset", "clear_range"}
         \/ \E t \in BagToSet(load) :
              /\ LoadReturn(t, TRUE)
              /\ lastOp' = "load_done"
              /\ <<t.src, t.slug>> = Key(app'))
     => /\ IsSome(session_file')
        /\ Get(session_file').range_start = app'.range_start
        /\ Get(session_file').range_end = app'.range_end
        /\ Recorded(app') = Bounds(app')]_vars

\* C15 (as the text has it): no two threads have the session file open at
\* the same time, and when no save is in progress the file holds the
\* complete text of one payload, the one of the app's present state.
C15_WritesSerialized ==
  /\ ~(writers.ui.pc = "open" /\ writers.worker.pc = "open")
  /\ (/\ writers.ui.pc = "idle"
      /\ writers.worker.pc = "done"
      /\ writers.file.kind # "absent")
     => /\ writers.file.kind = "text"
        /\ writers.file.rest = 0
        /\ writers.file.payload = SessionPayload(app)

\* The per-source results of the sources of a list, one source after the
\* other in the order of the list.
RECURSIVE Aggregate(_, _)
Aggregate(sources, query) ==
  IF sources = << >> THEN << >>
  ELSE Tagged(Head(sources), SearchResults(get_client(Head(sources)), query))
         \o Aggregate(Tail(sources), query)

\* C16 (as the text has it): the result list a search publishes is the
\* concatenation of the results of the selected sources in the order of
\* their selection, for the source list as it was when the search began or
\* as it is when the search publishes.
C16_AggregationOrder ==
  [][\A t \in BagToSet(search) :
       (SearchReturn(t, TRUE) /\ lastOp' = "search_done")
       => app'.mangas \in {Aggregate(t.began_with, t.query),
                           Aggregate(app.selected_sources, t.query)}]_vars

\* C17: a search worker that finds no source selected logs that a source
\* must be selected and ends: it sends no request and the result list stays
\* as it was.
C17_NoSourceNoSearch ==
  [][\A t \in BagToSet(search) :
       (SearchBegin(t) /\ app.selected_sources = << >>)
       => /\ lastOp' = "search_nosource"
          /\ search' = Ended(search, t)
          /\ \A u \in BagToSet(search') : u.pc # "call"
          /\ app'.mangas = app.mangas]_vars

\* C17: a search with no source selected has ended, and the results of an
\* earlier search are still listed.
C17_SearchedWithoutSource ==
  /\ lastOp = "search_nosource"
  /\ app.selected_sources = << >>
  /\ app.mangas # << >>
  /\ search = EmptyBag

\* C18 (as the text has it): whenever a manga is selected, the source name
\* that keys the range cache and the downloaded sets, and the client that
\* loads and downloads chapters, are those of the source the manga came
\* from.
C18_ClientOfSelectedManga ==
  (mounted /\ IsSome(app.selected_manga)) =>
    /\ IsSome(app.selected_manga_source)
    /\ app.source_name = Get(app.selected_manga_source)
    /\ app.client = get_client(Get(app.selected_manga_source))

\* C19 (as the text has it): every round of a range download uses the
\* client of the context the download started in, stores the chapter under
\* the title of the manga of that context, and when the chapter is complete
\* records it in the downloaded set of that context.
C19_DownloadKeepsContext ==
  [][\A t \in BagToSet(download), failKind \in FailKinds :
       (/\ t.pc = "loop"
        /\ t.selected # << >>
        /\ DownloadStep(t, TRUE, 0, failKind))
       => /\ app.client = get_client(t.key[1])
          /\ Get(app.selected_manga).slug = t.key[2]
          /\ lastOp' \in {"download_next", "download_done"}
               => /\ t.key \in DOMAIN app'.downloaded_chapters
                  /\ {t.selected[t.idx].id, t.selected[t.idx].slug}
                       \subseteq app'.downloaded_chapters[t.key]]_vars

\* C20 (as the text has it): when the app has started on a session file
\* that an earlier session wrote and has quit with no user action, the
\* file holds the last query, the last selection (source, slug, title) and
\* the source list it held before.
C20_StartupKeepsSession ==
  (sess.pc = "started" /\ IsSome(sess.by)) =>
    \A key \in {"last_query", "selected_source", "selected_slug",
                "selected_title", "sources"} :
      Field(sess.doc.value, key) = Field(sess.stored.value, key)

\* C21 (as the text has it): every page a download_chapter call skipped,
\* because its destination file existed when the loop came to it, has a
\* file that an earlier fetch wrote completely.
C21_SkippedPagesComplete ==
  call.pc = "done" =>
    \A idx \in 1..Len(call.pages) :
      (/\ PageFileName(idx, call.pages[idx]) \in DOMAIN call.before
       /\ \/ call.result = "ok"
          \/ \E k \in 1..Len(call.fetched) : call.fetched[k] > idx)
      => call.before[PageFileName(idx, call.pages[idx])] = "full"

\* C22 (as the text has it): for a non-empty chapter list and bounds the
\* session can hold, the chapters download_range downloads are the chapters
\* _select_range selects for the same bounds, and when the status line
\* shows a range they are the chapters from its first to its last row.
C22_ResolversAgree ==
  rng.pc = "tui" =>
    /\ rng.selected = select_range(rng.chapters, rng.start, rng.end)
    /\ IsSome(rng.status)
         => rng.selected = SubSeq(rng.chapters, Get(rng.status)[1] + 1,
                                  Get(rng.status)[2] + 1)

====
